---- MODULE Spec2Model ----
(***************************************************************************)
(* Model of src/stores.rs: the arena-indexed LRUList, the SizedCache built *)
(* on it, the UnboundCache and the TimedCache.  Each cache is one record   *)
(* (`c`, `u`, `t`) with the fields of the Rust struct; every method is an  *)
(* operator from the cache (or list) to the new cache (or list) and its    *)
(* return value, and every action applies one method of the Cached trait.  *)
(* `now` is the clock that TimedCache reads, in ticks; `variant` is the    *)
(* cache the calls are made on; `overflow_checks` is whether the build     *)
(* panics on integer overflow (debug) or wraps (release).                  *)
(***************************************************************************)
EXTENDS Integers, Sequences, FiniteSets, TLC

VARIABLES c, panicked, last, before, run, lastSet, gets, size,
          u, t, now, variant, overflow_checks, counted, abs

vars == <<c, panicked, last, before, run, lastSet, gets, size,
          u, t, now, variant, overflow_checks, counted, abs>>

(* ---------------------------- bounds ---------------------------------- *)
MaxSize == 2
NumKeys == 3
MaxGets == 1
MaxLifespan == 1
MaxTime == 3
\* the clock's resolution: Instant is finer than the whole seconds of
\* Duration::as_secs
TicksPerSec == 2

Keys == 1..NumKeys
Sizes == 1..MaxSize
\* V is an unconstrained type parameter: the code stores, moves and returns
\* values and never inspects them, so two distinct values are enough to tell
\* a current value from a stale one.
Vals == {100, 200}

\* u32: TLC integers are 32-bit signed, so a u32 is kept as its two 16-bit
\* halves <<hi, lo>>, value hi * 2^16 + lo; += 1 wraps at 2^32.
Half == 65536
u32(n) == <<n \div Half, n % Half>>
u32_inc(x) ==
  IF x[2] + 1 < Half THEN <<x[1], x[2] + 1>> ELSE <<(x[1] + 1) % Half, 0>>
U32Max == <<Half - 1, Half - 1>>
\* `x += 1` on a u32 panics instead of wrapping when the build has overflow
\* checks (the default of debug builds) and x is u32::MAX
Overflows(x) == overflow_checks /\ x = U32Max
OverflowPanic == "attempt to add with overflow"

(* ------------------------- Option<T> ---------------------------------- *)
None == <<>>
Some(x) == <<x>>
unwrap(o) == o[1]

(* ------------------------- LRUList<T> --------------------------------- *)
FREE == 0
OCCUPIED == 1

len(values) == Cardinality(DOMAIN values)

ListEntry(value, next, prev) == [value |-> value, next |-> next, prev |-> prev]

push(values, entry) ==
  [i \in 0..len(values) |-> IF i < len(values) THEN values[i] ELSE entry]

EmptyValues ==
  push(push(<<>>, ListEntry(None, 0, 0)), ListEntry(None, 1, 1))

with_capacity(capacity) == [values |-> EmptyValues]

unlink_next_only(list, index) ==
  LET prev == list.values[index].prev
      next == list.values[index].next
  IN [list EXCEPT !.values = [list.values EXCEPT ![prev].next = next]]

unlink(list, index) ==
  LET prev == list.values[index].prev
      next == list.values[index].next
      v1 == [list.values EXCEPT ![prev].next = next]
      v2 == [v1 EXCEPT ![next].prev = prev]
  IN [list EXCEPT !.values = v2]

link_after(list, index, prev) ==
  LET next == list.values[prev].next
      v1 == [list.values EXCEPT ![index].prev = prev]
      v2 == [v1 EXCEPT ![index].next = next]
      v3 == [v2 EXCEPT ![prev].next = index]
      v4 == [v3 EXCEPT ![next].prev = index]
  IN [list EXCEPT !.values = v4]

move_to_front_noop(list, index) == list

move_to_front(list, index) ==
  link_after(unlink(list, index), index, OCCUPIED)

push_front_at_back(list, value) ==
  LET grown ==
        IF list.values[FREE].next = FREE
        THEN LET pushed == push(list.values, ListEntry(None, FREE, FREE))
             IN [pushed EXCEPT ![FREE].next = len(pushed) - 1]
        ELSE list.values
      index == grown[FREE].next
      stored == [values |-> [grown EXCEPT ![index].value = value]]
      unlinked == unlink(stored, index)
  IN [list |-> link_after(unlinked, index, unlinked.values[OCCUPIED].prev),
      index |-> index]

push_front_always_grow(list, value) ==
  LET pushed == push(list.values, ListEntry(None, FREE, FREE))
      index == len(pushed) - 1
      stored == [values |-> [pushed EXCEPT ![index].value = value]]
  IN [list |-> link_after(stored, index, OCCUPIED), index |-> index]

\* returns the new list and the index of the slot that now holds `value`
push_front(list, value) ==
  LET grown ==
        IF list.values[FREE].next = FREE
        THEN LET pushed == push(list.values, ListEntry(None, FREE, FREE))
             IN [pushed EXCEPT ![FREE].next = len(pushed) - 1]
        ELSE list.values
      index == grown[FREE].next
      stored == [values |-> [grown EXCEPT ![index].value = value]]
  IN [list |-> link_after(unlink(stored, index), index, OCCUPIED),
      index |-> index]

remove_onto_occupied(list, index) ==
  LET moved == link_after(unlink(list, index), index, OCCUPIED)
  IN [list |-> [values |-> [moved.values EXCEPT ![index].value = None]],
      taken |-> moved.values[index].value]

remove_keep_value(list, index) ==
  LET moved == link_after(unlink(list, index), index, FREE)
  IN [list |-> moved, taken |-> moved.values[index].value]

\* returns the new list and the Option taken out of the slot; the
\* expect("invalid index") fires when that Option is None
remove(list, index) ==
  LET moved == link_after(unlink(list, index), index, FREE)
  IN [list |-> [values |-> [moved.values EXCEPT ![index].value = None]],
      taken |-> moved.values[index].value]

back_front(list) == list.values[OCCUPIED].next

back(list) == list.values[OCCUPIED].prev

pop_back_newest(list) == remove(list, list.values[OCCUPIED].next)

pop_back(list) == remove(list, back(list))

\* Option<&T>; expect("invalid index") fires on None
get(list, index) == list.values[index].value

set_if_empty(list, index, value) ==
  IF list.values[index].value = None
  THEN [list EXCEPT !.values[index].value = Some(value)]
  ELSE list

set(list, index, value) == [list EXCEPT !.values[index].value = Some(value)]

clear_keep(list) == list

clear(list) == [values |-> EmptyValues]

\* LRUListIterator::next applied until it returns None: the payloads from
\* the slot after OCCUPIED up to the first slot that is OCCUPIED again or
\* holds no payload.  `fuel` bounds the walk by the number of slots.
RECURSIVE iter_from(_, _, _)
iter_from(list, index, fuel) ==
  LET next == list.values[index].next
  IN IF next = OCCUPIED \/ fuel = 0
     THEN <<>>
     ELSE IF list.values[next].value = None
          THEN <<>>
          ELSE <<unwrap(list.values[next].value)>>
                 \o iter_from(list, next, fuel - 1)

iter(list) == iter_from(list, OCCUPIED, len(list.values))

(* ------------------------- HashMap<K, usize> -------------------------- *)
contains_key(store, key) == key \in DOMAIN store
insert(store, key, index) ==
  [k \in DOMAIN store \cup {key} |-> IF k = key THEN index ELSE store[k]]
remove_key(store, key) == [k \in DOMAIN store \ {key} |-> store[k]]
EmptyStore == [k \in {} |-> 0]

(* ------------------------- SizedCache<K, V> --------------------------- *)
with_size(n) ==
  [store |-> EmptyStore,
   order |-> with_capacity(n),
   capacity |-> n,
   hits |-> u32(0),
   misses |-> u32(0)]

\* .map(|(k, _v)| k) and .map(|(_k, v)| v) over a sequence of pairs
firsts(s) == [i \in 1..Len(s) |-> s[i][1]]
seconds(s) == [i \in 1..Len(s) |-> s[i][2]]

key_order(cache) == firsts(iter(cache.order))
value_order(cache) == seconds(iter(cache.order))

cache_size(cache) == Cardinality(DOMAIN cache.store)
cache_hits(cache) == Some(cache.hits)
cache_misses(cache) == Some(cache.misses)
cache_capacity(cache) == Some(cache.capacity)

Result(cache, ret, panic) == [c |-> cache, ret |-> ret, panic |-> panic]
NoPanic == ""
InBounds(list, index) == index \in DOMAIN list.values

cache_get_no_promote(cache, key) ==
  IF contains_key(cache.store, key)
  THEN LET index == cache.store[key]
       IN IF ~InBounds(cache.order, index)
          THEN Result(cache, None, "index out of bounds")
          ELSE IF get(cache.order, index) = None
               THEN Result(cache, None, "invalid index")
               ELSE Result([cache EXCEPT !.hits = u32_inc(@)],
                           Some(unwrap(get(cache.order, index))[2]),
                           NoPanic)
  ELSE Result([cache EXCEPT !.misses = u32_inc(@)], None, NoPanic)

cache_get(cache, key) ==
  IF contains_key(cache.store, key)
  THEN LET index == cache.store[key]
       IN IF ~InBounds(cache.order, index)
          THEN Result(cache, None, "index out of bounds")
          ELSE LET moved == move_to_front(cache.order, index)
                   hit == [cache EXCEPT !.order = moved,
                                        !.hits = u32_inc(@)]
               IN IF Overflows(cache.hits)
                  THEN Result([cache EXCEPT !.order = moved], None,
                              OverflowPanic)
                  ELSE IF get(moved, index) = None
                  THEN Result(hit, None, "invalid index")
                  ELSE Result(hit,
                              Some(unwrap(get(moved, index))[2]),
                              NoPanic)
  ELSE IF Overflows(cache.misses)
       THEN Result(cache, None, OverflowPanic)
       ELSE Result([cache EXCEPT !.misses = u32_inc(@)], None, NoPanic)

cache_set_evict_keep_index(cache) ==
  LET popped == pop_back(cache.order)
      shrunk == [cache EXCEPT !.order = popped.list]
  IN IF popped.taken = None
     THEN Result(shrunk, None, "invalid index")
     ELSE Result(shrunk, None, NoPanic)

\* the eviction step of cache_set: pop_back, then store.remove(&key)
cache_set_evict(cache) ==
  LET popped == pop_back(cache.order)
      shrunk == [cache EXCEPT !.order = popped.list]
  IN IF popped.taken = None
     THEN Result(shrunk, None, "invalid index")
     ELSE LET evicted == unwrap(popped.taken)[1]
          IN IF ~contains_key(cache.store, evicted)
             THEN Result(shrunk, None,
                         "SizedCache::cache_set failed evicting cache key")
             ELSE Result([shrunk EXCEPT
                            !.store = remove_key(cache.store, evicted)],
                         None, NoPanic)

cache_set_insert_always_push(cache, key, val) ==
  LET pf == push_front(cache.order, None)
  IN [cache EXCEPT !.store = insert(cache.store, key, pf.index),
                   !.order = set(pf.list, pf.index, <<key, val>>)]

\* store.entry(key).or_insert_with(|| order.push_front(None)), then
\* order.set(index, (key, val))
cache_set_insert(cache, key, val) ==
  IF contains_key(cache.store, key)
  THEN [cache EXCEPT !.order = set(cache.order, cache.store[key],
                                   <<key, val>>)]
  ELSE LET pf == push_front(cache.order, None)
       IN [cache EXCEPT !.store = insert(cache.store, key, pf.index),
                        !.order = set(pf.list, pf.index, <<key, val>>)]

cache_set_evict_late(cache, key, val) ==
  IF cache_size(cache) > cache.capacity
  THEN LET e == cache_set_evict(cache)
       IN IF e.panic # NoPanic THEN e
          ELSE Result(cache_set_insert(e.c, key, val), None, NoPanic)
  ELSE Result(cache_set_insert(cache, key, val), None, NoPanic)

cache_set_lookup_first(cache, key, val) ==
  IF cache_size(cache) >= cache.capacity /\ ~contains_key(cache.store, key)
  THEN LET e == cache_set_evict(cache)
       IN IF e.panic # NoPanic THEN e
          ELSE Result(cache_set_insert(e.c, key, val), None, NoPanic)
  ELSE Result(cache_set_insert(cache, key, val), None, NoPanic)

cache_set(cache, key, val) ==
  IF cache_size(cache) >= cache.capacity
  THEN LET e == cache_set_evict(cache)
       IN IF e.panic # NoPanic THEN e
          ELSE Result(cache_set_insert(e.c, key, val), None, NoPanic)
  ELSE Result(cache_set_insert(cache, key, val), None, NoPanic)

cache_remove_keep_index(cache, k) ==
  IF contains_key(cache.store, k)
  THEN LET index == cache.store[k]
       IN IF ~InBounds(cache.order, index)
          THEN Result(cache, None, "index out of bounds")
          ELSE LET r == remove(cache.order, index)
               IN IF r.taken = None
                  THEN Result([cache EXCEPT !.order = r.list], None,
                              "invalid index")
                  ELSE Result([cache EXCEPT !.order = r.list],
                              Some(unwrap(r.taken)[2]), NoPanic)
  ELSE Result(cache, None, NoPanic)

cache_remove(cache, k) ==
  IF contains_key(cache.store, k)
  THEN LET index == cache.store[k]
           removed == [cache EXCEPT !.store = remove_key(cache.store, k)]
       IN IF ~InBounds(cache.order, index)
          THEN Result(removed, None, "index out of bounds")
          ELSE LET r == remove(cache.order, index)
               IN IF r.taken = None
                  THEN Result([removed EXCEPT !.order = r.list], None,
                              "invalid index")
                  ELSE Result([removed EXCEPT !.order = r.list],
                              Some(unwrap(r.taken)[2]), NoPanic)
  ELSE Result(cache, None, NoPanic)

cache_clear(cache) ==
  Result([cache EXCEPT !.store = EmptyStore, !.order = clear(cache.order)],
         None, NoPanic)

cache_reset(cache) == cache_clear(cache)

(* ------------------------- UnboundCache<K, V> ------------------------- *)
\* HashMap<K, V>, HashMap<K, (Instant, V)>
map_insert(store, key, entry) ==
  [k \in DOMAIN store \cup {key} |-> IF k = key THEN entry ELSE store[k]]
map_remove(store, key) == [k \in DOMAIN store \ {key} |-> store[k]]
new_store(capacity) == [k \in {} |-> 0]

UnboundCache_new ==
  [store |-> new_store(None), hits |-> u32(0), misses |-> u32(0),
   initial_capacity |-> None]

UnboundCache_cache_get(cache, key) ==
  IF key \in DOMAIN cache.store
  THEN IF Overflows(cache.hits)
       THEN Result(cache, None, OverflowPanic)
       ELSE Result([cache EXCEPT !.hits = u32_inc(@)],
                   Some(cache.store[key]), NoPanic)
  ELSE IF Overflows(cache.misses)
       THEN Result(cache, None, OverflowPanic)
       ELSE Result([cache EXCEPT !.misses = u32_inc(@)], None, NoPanic)

UnboundCache_cache_set(cache, key, val) ==
  Result([cache EXCEPT !.store = map_insert(@, key, val)], None, NoPanic)

UnboundCache_cache_remove(cache, k) ==
  Result([cache EXCEPT !.store = map_remove(@, k)],
         IF k \in DOMAIN cache.store THEN Some(cache.store[k]) ELSE None,
         NoPanic)

UnboundCache_cache_clear(cache) ==
  Result([cache EXCEPT !.store = new_store(None)], None, NoPanic)

UnboundCache_cache_reset(cache) ==
  Result([cache EXCEPT !.store = new_store(cache.initial_capacity)],
         None, NoPanic)

(* ------------------------- TimedCache<K, V> --------------------------- *)
\* An Instant is a number of clock ticks; instant.elapsed().as_secs() at
\* time `at` is the whole seconds between the two.
elapsed_secs(instant, at) == (at - instant) \div TicksPerSec

with_lifespan(lifespan) ==
  [store |-> new_store(None), seconds |-> lifespan, hits |-> u32(0),
   misses |-> u32(0), initial_capacity |-> None]

Status(cache, key, at) ==
  IF key \in DOMAIN cache.store
  THEN IF elapsed_secs(cache.store[key][1], at) < cache.seconds
       THEN "Found"
       ELSE "Expired"
  ELSE "NotFound"

TimedCache_cache_get_sweep(cache, key, at) ==
  LET live == {k \in DOMAIN cache.store : Status(cache, k, at) = "Found"}
      swept == [cache EXCEPT !.store = [k \in live |-> cache.store[k]]]
  IN IF key \in live
     THEN Result([swept EXCEPT !.hits = u32_inc(@)],
                 Some(cache.store[key][2]), NoPanic)
     ELSE Result([swept EXCEPT !.misses = u32_inc(@)], None, NoPanic)

TimedCache_cache_get_le(cache, key, at) ==
  IF key \in DOMAIN cache.store
  THEN IF elapsed_secs(cache.store[key][1], at) <= cache.seconds
       THEN Result([cache EXCEPT !.hits = u32_inc(@)],
                   Some(cache.store[key][2]), NoPanic)
       ELSE Result([cache EXCEPT !.misses = u32_inc(@),
                                 !.store = map_remove(@, key)],
                   None, NoPanic)
  ELSE Result([cache EXCEPT !.misses = u32_inc(@)], None, NoPanic)

TimedCache_cache_get(cache, key, at) ==
  CASE Status(cache, key, at) = "NotFound" ->
         IF Overflows(cache.misses)
         THEN Result(cache, None, OverflowPanic)
         ELSE Result([cache EXCEPT !.misses = u32_inc(@)], None, NoPanic)
    [] Status(cache, key, at) = "Found" ->
         IF Overflows(cache.hits)
         THEN Result(cache, None, OverflowPanic)
         ELSE Result([cache EXCEPT !.hits = u32_inc(@)],
                     Some(cache.store[key][2]), NoPanic)
    [] Status(cache, key, at) = "Expired" ->
         IF Overflows(cache.misses)
         THEN Result(cache, None, OverflowPanic)
         ELSE Result([cache EXCEPT !.misses = u32_inc(@),
                                   !.store = map_remove(@, key)],
                     None, NoPanic)

TimedCache_cache_set(cache, key, val, at) ==
  Result([cache EXCEPT !.store = map_insert(@, key, <<at, val>>)],
         None, NoPanic)

TimedCache_cache_remove(cache, k) ==
  Result([cache EXCEPT !.store = map_remove(@, k)],
         IF k \in DOMAIN cache.store THEN Some(cache.store[k][2]) ELSE None,
         NoPanic)

TimedCache_cache_clear(cache) ==
  Result([cache EXCEPT !.store = new_store(None)], None, NoPanic)

TimedCache_cache_reset(cache) ==
  Result([cache EXCEPT !.store = new_store(cache.initial_capacity)],
         None, NoPanic)

(* ------------------------- history variables -------------------------- *)
\* last:    the operation that produced the current state, its arguments and
\*          its return value.
\* before:  the cache that operation was applied to, and (afterHit) the key
\*          of the cache_get hit that immediately preceded it, if any.
\* run:     the cache_set calls made, with nothing in between, since the
\*          cache was last empty: the set of their keys, and the calls
\*          themselves in order (kv) while there are at most `capacity` of
\*          them (long: there were more).
\* size:    the size the cache was constructed with.
\* lastSet: per key, the value of the most recent cache_set(k, v).
\* gets:    the number of cache_get calls made so far.
\* abs:     the sequence of (key, value) pairs that the same calls give when
\*          applied to a plain sequence, and the value the last one returns.
\* counted: the hits and misses the cache had counted when the modelled
\*          calls began.
\* Spec records last, before and run; SpecOrder records last, before
\* (without afterHit) and abs; SpecSets records last and lastSet;
\* SpecCounters and SpecTimed record last and before.
Call(op, key, val, ret) == [op |-> op, key |-> key, val |-> val, ret |-> ret]

HitKey == IF last.op = "get" /\ last.ret # None THEN Some(last.key) ELSE None

NoRun(ok) == [ok |-> ok, keys |-> {}, kv |-> <<>>, long |-> FALSE]

NextRun(op, r, key, val) ==
  IF cache_size(r.c) = 0 THEN NoRun(TRUE)
  ELSE IF op = "set" /\ run.ok
       THEN IF ~run.long /\ Len(run.kv) < c.capacity
            THEN [run EXCEPT !.keys = @ \cup {key},
                             !.kv = Append(@, <<key, val>>)]
            ELSE [run EXCEPT !.keys = @ \cup {key}, !.kv = <<>>,
                             !.long = TRUE]
  ELSE NoRun(FALSE)

Apply(op, key, val, r) ==
  /\ panicked = NoPanic
  /\ c' = r.c
  /\ panicked' = r.panic
  /\ last' = Call(op, key, val, r.ret)
  /\ gets' = IF op = "get" THEN gets + 1 ELSE gets
  /\ UNCHANGED <<size, u, t, now, variant, overflow_checks, counted>>

\* the calls on a sequence `s` of (key, value) pairs holding at most
\* `capacity` pairs
Drop(s, k) == SelectSeq(s, LAMBDA p : p[1] # k)
Pick(s, k) == SelectSeq(s, LAMBDA p : p[1] = k)
AbsResult(s, ret) == [seq |-> s, ret |-> ret]
abs_get(s, k) ==
  IF Pick(s, k) = <<>> THEN AbsResult(s, None)
  ELSE AbsResult(Pick(s, k) \o Drop(s, k), Some(Pick(s, k)[1][2]))
abs_set(s, k, v, capacity) ==
  LET kept == IF Len(s) >= capacity THEN SubSeq(s, 1, Len(s) - 1) ELSE s
  IN IF Pick(kept, k) = <<>>
     THEN AbsResult(<<<<k, v>>>> \o kept, None)
     ELSE AbsResult([i \in 1..Len(kept) |->
                       IF kept[i][1] = k THEN <<k, v>> ELSE kept[i]], None)
abs_remove(s, k) ==
  IF Pick(s, k) = <<>> THEN AbsResult(s, None)
  ELSE AbsResult(Drop(s, k), Some(Pick(s, k)[1][2]))
abs_clear(s) == AbsResult(<<>>, None)
AbsCall(op, key, val) ==
  CASE op = "get" -> abs_get(abs.seq, key)
    [] op = "set" -> abs_set(abs.seq, key, val, size)
    [] op = "remove" -> abs_remove(abs.seq, key)
    [] OTHER -> abs_clear(abs.seq)

RecordCall(op, key, val, r) ==
  /\ before' = [c |-> c, afterHit |-> HitKey]
  /\ run' = NextRun(op, r, key, val)
  /\ UNCHANGED <<lastSet, abs>>

RecordOrder(op, key, val) ==
  /\ before' = [c |-> c, afterHit |-> None]
  /\ abs' = AbsCall(op, key, val)
  /\ UNCHANGED <<run, lastSet>>

RecordSets(op, key, val) ==
  /\ lastSet' = IF op = "set" THEN [lastSet EXCEPT ![key] = Some(val)]
                ELSE lastSet
  /\ UNCHANGED <<before, run, abs>>

(* ------------------------- specification ------------------------------ *)
NoHistory(cache) ==
  /\ panicked = NoPanic
  /\ last = Call("new", 0, 0, None)
  /\ before = [c |-> cache, afterHit |-> None]
  /\ run = NoRun(TRUE)
  /\ lastSet = [k \in Keys |-> None]
  /\ gets = 0
  /\ abs = AbsResult(<<>>, None)
  /\ now = 0

\* a SizedCache as with_size builds it; the other two caches are not used
Init ==
  /\ size \in Sizes
  /\ c = with_size(size)
  /\ u = UnboundCache_new
  /\ t = with_lifespan(0)
  /\ variant = "sized"
  /\ overflow_checks = FALSE
  /\ counted = [hits |-> u32(0), misses |-> u32(0)]
  /\ NoHistory(c)

DoGet(key) == gets < MaxGets /\ Apply("get", key, 0, cache_get(c, key))
DoSet(key, val) == Apply("set", key, val, cache_set(c, key, val))
DoRemove(key) == Apply("remove", key, 0, cache_remove(c, key))
DoClear == Apply("clear", 0, 0, cache_clear(c))
DoReset == Apply("reset", 0, 0, cache_reset(c))

Get(key) == DoGet(key) /\ RecordCall("get", key, 0, cache_get(c, key))
Set(key, val) ==
  DoSet(key, val) /\ RecordCall("set", key, val, cache_set(c, key, val))
Remove(key) ==
  DoRemove(key) /\ RecordCall("remove", key, 0, cache_remove(c, key))
Clear == DoClear /\ RecordCall("clear", 0, 0, cache_clear(c))
Reset == DoReset /\ RecordCall("reset", 0, 0, cache_reset(c))

Next ==
  \/ \E key \in Keys : Get(key)
  \/ \E key \in Keys, val \in Vals : Set(key, val)
  \/ \E key \in Keys : Remove(key)
  \/ Clear
  \/ Reset

Spec == Init /\ [][Next]_vars

GetO(key) == DoGet(key) /\ RecordOrder("get", key, 0)
SetO(key, val) == DoSet(key, val) /\ RecordOrder("set", key, val)
RemoveO(key) == DoRemove(key) /\ RecordOrder("remove", key, 0)
ClearO == DoClear /\ RecordOrder("clear", 0, 0)
ResetO == DoReset /\ RecordOrder("reset", 0, 0)

NextOrder ==
  \/ \E key \in Keys : GetO(key)
  \/ \E key \in Keys, val \in Vals : SetO(key, val)
  \/ \E key \in Keys : RemoveO(key)
  \/ ClearO
  \/ ResetO

SpecOrder == Init /\ [][NextOrder]_vars

GetS(key) == DoGet(key) /\ RecordSets("get", key, 0)
SetS(key, val) == DoSet(key, val) /\ RecordSets("set", key, val)
RemoveS(key) == DoRemove(key) /\ RecordSets("remove", key, 0)
ClearS == DoClear /\ RecordSets("clear", 0, 0)
ResetS == DoReset /\ RecordSets("reset", 0, 0)

NextSets ==
  \/ \E key \in Keys : GetS(key)
  \/ \E key \in Keys, val \in Vals : SetS(key, val)
  \/ \E key \in Keys : RemoveS(key)
  \/ ClearS
  \/ ResetS

SpecSets == Init /\ [][NextSets]_vars

(* ---------------- the three caches and their counters ------------------ *)
Variants == {"unbound", "sized", "timed"}

\* a call on the UnboundCache or the TimedCache, `cache` being its receiver
ApplyOther(op, key, val, r, cache) ==
  /\ panicked = NoPanic
  /\ panicked' = r.panic
  /\ last' = Call(op, key, val, r.ret)
  /\ before' = [c |-> cache, afterHit |-> HitKey]
  /\ gets' = IF op = "get" THEN gets + 1 ELSE gets
  /\ UNCHANGED <<c, size, now, variant, overflow_checks, counted, run, abs,
                 lastSet>>

ApplyUnbound(op, key, val, r) ==
  /\ variant = "unbound"
  /\ ApplyOther(op, key, val, r, u)
  /\ u' = r.c
  /\ UNCHANGED t

ApplyTimed(op, key, val, r) ==
  /\ variant = "timed"
  /\ ApplyOther(op, key, val, r, t)
  /\ t' = r.c
  /\ UNCHANGED u

UGet(key) ==
  gets < MaxGets /\ ApplyUnbound("get", key, 0, UnboundCache_cache_get(u, key))
USet(key, val) ==
  ApplyUnbound("set", key, val, UnboundCache_cache_set(u, key, val))
URemove(key) ==
  ApplyUnbound("remove", key, 0, UnboundCache_cache_remove(u, key))
UClear == ApplyUnbound("clear", 0, 0, UnboundCache_cache_clear(u))
UReset == ApplyUnbound("reset", 0, 0, UnboundCache_cache_reset(u))

TGet(key) ==
  gets < MaxGets
    /\ ApplyTimed("get", key, 0, TimedCache_cache_get(t, key, now))
TSet(key, val) ==
  ApplyTimed("set", key, val, TimedCache_cache_set(t, key, val, now))
TRemove(key) ==
  ApplyTimed("remove", key, 0, TimedCache_cache_remove(t, key))
TClear == ApplyTimed("clear", 0, 0, TimedCache_cache_clear(t))
TReset == ApplyTimed("reset", 0, 0, TimedCache_cache_reset(t))

\* time passes between two calls
Tick ==
  /\ variant = "timed"
  /\ panicked = NoPanic
  /\ now < MaxTime
  /\ now' = now + 1
  /\ last' = Call("tick", 0, 0, None)
  /\ before' = [c |-> t, afterHit |-> None]
  /\ UNCHANGED <<c, u, t, panicked, run, lastSet, gets, size, variant,
                 overflow_checks, counted, abs>>

SizedStep ==
  /\ variant = "sized"
  /\ \/ \E key \in Keys : Get(key)
     \/ \E key \in Keys, val \in Vals : Set(key, val)
     \/ \E key \in Keys : Remove(key)
     \/ Clear
     \/ Reset

NextUnbound ==
  \/ \E key \in Keys : UGet(key)
  \/ \E key \in Keys, val \in Vals : USet(key, val)
  \/ \E key \in Keys : URemove(key)
  \/ UClear
  \/ UReset

\* The TimedCache keeps one independent map entry per key and no call reads
\* or writes the entry of a key other than its argument's, except clear and
\* reset, which drop them all: the key a call names and one other key show
\* everything.
TimedKeys == {1, 2}

NextTimed ==
  \/ \E key \in TimedKeys : TGet(key)
  \/ \E key \in TimedKeys, val \in Vals : TSet(key, val)
  \/ \E key \in TimedKeys : TRemove(key)
  \/ TClear
  \/ TReset
  \/ Tick

\* a TimedCache as with_lifespan builds it
InitTimed ==
  /\ size = 1
  /\ c = with_size(size)
  /\ u = UnboundCache_new
  /\ \E lifespan \in 0..MaxLifespan : t = with_lifespan(lifespan)
  /\ variant = "timed"
  /\ overflow_checks = FALSE
  /\ counted = [hits |-> u32(0), misses |-> u32(0)]
  /\ NoHistory(t)

SpecTimed == InitTimed /\ [][NextTimed]_vars

\* One of the three caches, empty, in a build with or without overflow
\* checks, after it has counted no or u32::MAX hits and no or u32::MAX
\* misses.
Started(cache, v) ==
  IF variant = v
  THEN [cache EXCEPT !.hits = counted.hits, !.misses = counted.misses]
  ELSE cache

InitCounters ==
  /\ variant \in Variants
  /\ overflow_checks \in BOOLEAN
  /\ counted \in [hits : {u32(0), U32Max}, misses : {u32(0), U32Max}]
  /\ size \in Sizes
  /\ variant # "sized" => size = 1
  /\ c = Started(with_size(size), "sized")
  /\ u = Started(UnboundCache_new, "unbound")
  /\ \E lifespan \in 0..MaxLifespan :
       /\ variant # "timed" => lifespan = 0
       /\ t = Started(with_lifespan(lifespan), "timed")
  /\ NoHistory(CASE variant = "sized" -> c
                 [] variant = "unbound" -> u
                 [] OTHER -> t)

NextCounters == SizedStep \/ NextUnbound \/ NextTimed

SpecCounters == InitCounters /\ [][NextCounters]_vars

(* ------------------------- properties --------------------------------- *)
pre == before.c
Full(cache) == cache_size(cache) = cache.capacity
Elems(s) == {s[i] : i \in 1..Len(s)}
NoDup(s) == \A i, j \in 1..Len(s) : s[i] = s[j] => i = j
Reverse(s) == [i \in 1..Len(s) |-> s[Len(s) + 1 - i]]
\* the (key, value) pairs of s whose key is not k / is k, in order
Without(s, k) == SelectSeq(s, LAMBDA p : p[1] # k)
Only(s, k) == SelectSeq(s, LAMBDA p : p[1] = k)
Present(cache, k) == contains_key(cache.store, k)
SetOfNew == last.op = "set" /\ ~Present(pre, last.key)
\* the cache the calls are made on
cur == CASE variant = "sized" -> c
         [] variant = "unbound" -> u
         [] OTHER -> t
Completed(op) == last.op = op /\ panicked = NoPanic

\* C1: cache_set of an absent key on a full cache removes exactly one key,
\* the last element of key_order() before the call; every other key stays.
C1_EvictsLeastRecentlyUsed ==
  (SetOfNew /\ Full(pre)) =>
    /\ panicked = NoPanic
    /\ Len(key_order(pre)) = pre.capacity
    /\ LET lru == key_order(pre)[Len(key_order(pre))]
       IN /\ DOMAIN c.store = (DOMAIN pre.store \ {lru}) \cup {last.key}
          /\ Elems(key_order(c)) = (Elems(key_order(pre)) \ {lru})
                                     \cup {last.key}
          /\ lru \notin Elems(key_order(c))

\* a full cache of the largest size, a cache_get hit, and then the cache_set
\* of a new key
C1_Witness ==
  /\ SetOfNew /\ Full(pre) /\ pre.capacity = MaxSize
  /\ before.afterHit # None
  /\ panicked = NoPanic

\* C2: cache_size() is at most the size the cache was built with.
C2_SizeAtMostCapacity == cache_size(c) <= size

\* a cache_set on a cache that already held `size` keys
C2_Witness ==
  /\ last.op = "set" /\ cache_size(pre) = size /\ cache_size(c) = size
  /\ size >= 2

C4_NoDuplicateKeys ==
  /\ NoDup(key_order(c))
  /\ (run.ok /\ Cardinality(run.keys) = 1) =>
       /\ cache_size(c) = 1
       /\ Len(key_order(c)) = 1

\* more cache_set calls on one key than the cache has room for
C4_Witness ==
  /\ run.ok /\ run.long /\ Cardinality(run.keys) = 1
  /\ c.capacity = 2

\* C5: cache_set of a present key overwrites its value and leaves
\* key_order() as it was.
C5_SetExistingKeepsOrder ==
  (last.op = "set" /\ Present(pre, last.key)) =>
    /\ key_order(c) = key_order(pre)
    /\ Present(c, last.key)
    /\ get(c.order, c.store[last.key]) = Some(<<last.key, last.val>>)

\* C7 as stated, for a cache of any size: the key just read by a cache_get
\* hit survives an immediately following cache_set of a new key on a full
\* cache.
C7_ReadKeySurvivesAnySize ==
  (SetOfNew /\ Full(pre) /\ before.afterHit # None) =>
    Present(c, unwrap(before.afterHit))

\* C7 (amended): on a full cache of size N >= 2 the key just read by a
\* cache_get hit survives an immediately following cache_set of a new key.
C7_ReadKeySurvives ==
  (SetOfNew /\ Full(pre) /\ before.afterHit # None /\ pre.capacity >= 2) =>
    /\ Present(c, unwrap(before.afterHit))
    /\ unwrap(before.afterHit) \in Elems(key_order(c))

\* a hit, then a cache_set of a new key, on a full cache of size 2
C7_Witness ==
  /\ SetOfNew /\ Full(pre) /\ before.afterHit # None
  /\ pre.capacity = 2
  /\ panicked = NoPanic

\* C8: N cache_set calls with pairwise distinct keys on an empty cache of
\* size N leave key_order() and value_order() in reverse insertion order.
C8_ReverseInsertionOrder ==
  (run.ok /\ ~run.long /\ Len(run.kv) = c.capacity
     /\ NoDup(firsts(run.kv))) =>
    /\ key_order(c) = Reverse(firsts(run.kv))
    /\ value_order(c) = Reverse(seconds(run.kv))

\* distinct keys set on a cache of the largest size that had been used and
\* emptied before, so that the first key went into a recycled slot
C8_Witness ==
  /\ run.ok /\ ~run.long /\ Len(run.kv) = MaxSize /\ c.capacity = MaxSize
  /\ NoDup(firsts(run.kv))
  /\ c.store[run.kv[1][1]] # 2
  /\ gets > 0

C10_ClearAndResetAlike ==
  last.op \in {"clear", "reset"} =>
    /\ c = [with_size(size) EXCEPT !.hits = pre.hits, !.misses = pre.misses]
    /\ cache_size(c) = 0
    /\ key_order(c) = <<>>
    /\ cache_capacity(c) = Some(size)
    /\ \A k \in Keys : cache_get(c, k).ret = None
    /\ cache_clear(pre) = cache_reset(pre)
    /\ \A k \in Keys, v \in Vals :
         cache_set(c, k, v).c.order = cache_set(with_size(size), k, v).c.order

\* a cache_reset of a full cache of the largest size that has counted a hit
C10_Witness ==
  /\ last.op = "reset" /\ cache_size(pre) = MaxSize
  /\ c.hits # u32(0)

(* ------- properties of SpecOrder (C18: of Spec) ----------------------- *)
\* the least recently used key of a non-empty cache, and the keys before it
Lru(cache) == key_order(cache)[Len(key_order(cache))]
ButLast(s) == SubSeq(s, 1, Len(s) - 1)

\* C14: cache_set evicts before it looks the key up.  On a full cache the
\* last key of key_order() leaves the index and the order list, also when
\* the key set is present: a present key other than the least recently used
\* stays where it is and cache_size() becomes capacity - 1, the least
\* recently used key itself comes back at the front; below capacity no
\* entry is evicted.
C14_EvictsBeforeLookup ==
  Completed("set") =>
    IF Full(pre)
    THEN /\ DOMAIN c.store = (DOMAIN pre.store \ {Lru(pre)}) \cup {last.key}
         /\ Lru(pre) # last.key =>
              /\ ~Present(c, Lru(pre))
              /\ Lru(pre) \notin Elems(key_order(c))
         /\ (Present(pre, last.key) /\ Lru(pre) # last.key) =>
              /\ cache_size(c) = c.capacity - 1
              /\ key_order(c) = ButLast(key_order(pre))
         /\ Lru(pre) = last.key =>
              /\ key_order(c) = <<last.key>> \o ButLast(key_order(pre))
              /\ cache_size(c) = c.capacity
    ELSE /\ DOMAIN pre.store \subseteq DOMAIN c.store
         /\ Elems(key_order(pre)) \subseteq Elems(key_order(c))
         /\ cache_size(c) >= cache_size(pre)

\* a present key that is not the least recently used is set on a full cache
C14_Witness ==
  /\ Completed("set")
  /\ Full(pre)
  /\ Present(pre, last.key)
  /\ Lru(pre) # last.key
  /\ cache_size(c) = c.capacity - 1

\* the least recently used key is set on a full cache of more than one key
C14_LruWitness ==
  /\ Completed("set")
  /\ Full(pre)
  /\ c.capacity > 1
  /\ Lru(pre) = last.key
  /\ key_order(c) # key_order(pre)

\* the slots met by following `next` from the sentinel `start` until the
\* walk is back at `start` (or leaves the buffer, or has made as many steps
\* as the buffer has slots)
RECURSIVE walk(_, _, _, _)
walk(list, start, index, fuel) ==
  LET next == list.values[index].next
  IN IF next = start \/ fuel = 0 \/ next \notin DOMAIN list.values
     THEN {}
     ELSE {next} \cup walk(list, start, next, fuel - 1)
FreeCycle(list) == walk(list, FREE, FREE, len(list.values))
OccupiedCycle(list) == walk(list, OCCUPIED, OCCUPIED, len(list.values))
\* the slot n steps of `next` after `index`
RECURSIVE steps(_, _, _)
steps(list, index, n) ==
  IF n = 0 \/ index \notin DOMAIN list.values THEN index
  ELSE steps(list, list.values[index].next, n - 1)
Closed(list, start) ==
  \E n \in 1..len(list.values) : steps(list, start, n) = start
Slots(list) == DOMAIN list.values \ {FREE, OCCUPIED}

\* the lists that one LRUList operation of a SizedCache call leaves when
\* the call is made on `cache`: cache_get's move_to_front, cache_remove's
\* remove, cache_clear's clear, cache_set's pop_back (on a full cache) and
\* its push_front, which comes before set() has stored the payload
AfterListOp(cache) ==
  {move_to_front(cache.order, cache.store[k]) : k \in DOMAIN cache.store}
    \cup {remove(cache.order, cache.store[k]).list : k \in DOMAIN cache.store}
    \cup {clear(cache.order)}
    \cup (IF cache_size(cache) >= cache.capacity
          THEN {pop_back(cache.order).list,
                push_front(pop_back(cache.order).list, None).list}
          ELSE {push_front(cache.order, None).list})
\* the list of the cache and the lists its next calls go through
Lists == IF panicked = NoPanic THEN {c.order} \cup AfterListOp(c)
         ELSE {}

\* C15: after every completed call the index and the order list agree:
\* every index entry key -> slot has its slot on the occupied cycle with a
\* payload Some((key, _)), every occupied slot is the target of exactly one
\* index entry, and there are as many index entries as occupied slots.
C15_IndexAgreesWithOrder ==
  panicked = NoPanic =>
    /\ \A k \in DOMAIN c.store :
         /\ c.store[k] \in OccupiedCycle(c.order)
         /\ c.order.values[c.store[k]].value # None
         /\ unwrap(c.order.values[c.store[k]].value)[1] = k
    /\ \A s \in OccupiedCycle(c.order) :
         /\ s \in Slots(c.order)
         /\ Cardinality({k \in DOMAIN c.store : c.store[k] = s}) = 1
    /\ cache_size(c) = Cardinality(OccupiedCycle(c.order))

\* a full cache of more than one key has evicted one and taken a new one
C15_Witness ==
  /\ Completed("set")
  /\ Full(pre) /\ Full(c)
  /\ ~Present(pre, last.key)
  /\ Cardinality(OccupiedCycle(c.order)) > 1

\* C16: after every LRUList operation every slot other than the sentinels
\* is on exactly one of the free cycle through slot 0 and the occupied
\* cycle through slot 1, and the slots on the free cycle hold no payload.
Partitioned(list) ==
  /\ Closed(list, FREE) /\ Closed(list, OCCUPIED)
  /\ FreeCycle(list) \cap OccupiedCycle(list) = {}
  /\ FreeCycle(list) \cup OccupiedCycle(list) = Slots(list)
  /\ \A s \in FreeCycle(list) : list.values[s].value = None
C16_SlotsPartitioned == \A list \in Lists : Partitioned(list)

\* a cache_remove has released a slot and left another occupied
C16_Witness ==
  /\ Completed("remove")
  /\ last.ret # None
  /\ FreeCycle(c.order) # {}
  /\ OccupiedCycle(c.order) # {}

\* C17: after every LRUList operation the links of every slot, sentinels
\* included, are within the buffer and mutually consistent: the slot after
\* s has s before it and the slot before s has s after it; also when
\* push_front has grown the buffer.
Linked(list) ==
  \A s \in DOMAIN list.values :
    /\ list.values[s].next \in DOMAIN list.values
    /\ list.values[s].prev \in DOMAIN list.values
    /\ list.values[list.values[s].next].prev = s
    /\ list.values[list.values[s].prev].next = s
C17_LinksConsistent == \A list \in Lists : Linked(list)

\* a cache_set has grown the buffer of a cache that held a key already
C17_Witness ==
  /\ Completed("set")
  /\ len(c.order.values) > len(pre.order.values)
  /\ cache_size(pre) > 0

\* C18: on a cache built with size > 0 no call panics: no expect fires,
\* pop_back is never applied to an empty occupied cycle and no slot index
\* is outside the buffer.
C18_NoPanic ==
  /\ panicked = NoPanic
  /\ c.capacity > 0
  /\ \A k \in DOMAIN c.store :
       InBounds(c.order, c.store[k]) /\ get(c.order, c.store[k]) # None
  /\ cache_size(c) >= c.capacity =>
       /\ back(c.order) \in Slots(c.order)
       /\ get(c.order, back(c.order)) # None
       /\ contains_key(c.store, unwrap(get(c.order, back(c.order)))[1])
  /\ \A s \in DOMAIN c.order.values :
       /\ InBounds(c.order, c.order.values[s].next)
       /\ InBounds(c.order, c.order.values[s].prev)

\* since the cache was last empty only cache_set calls were made, more of
\* them than the cache holds keys, on every key, and the last one evicted
C18_Witness ==
  /\ run.ok /\ run.long
  /\ run.keys = Keys
  /\ Completed("set")
  /\ Full(pre) /\ Full(c)

\* C19: the calls made on the cache and the same calls made on a sequence
\* of (key, value) pairs (get moves the pair to the head, set drops the
\* last pair at capacity and then replaces in place or prepends, remove
\* deletes the pair, clear empties) return the same values and give the
\* same cache_size(), key_order() and value_order().
C19_RefinesSequence ==
  panicked = NoPanic =>
    /\ last.ret = abs.ret
    /\ cache_size(c) = Len(abs.seq)
    /\ key_order(c) = firsts(abs.seq)
    /\ value_order(c) = seconds(abs.seq)

\* a cache_get hit on a key that is not at the head, in a buffer with a
\* reused slot: the slots are no longer in the order of the sequence
C19_Witness ==
  /\ Completed("get")
  /\ last.ret # None
  /\ Len(abs.seq) > 1
  /\ key_order(pre)[1] # last.key
  /\ \E k \in DOMAIN c.store : c.store[k] # 1 + Len(abs.seq)

\* the list that cache_set's push_front is applied to
PushedOnto(cache) ==
  IF cache_size(cache) >= cache.capacity
  THEN pop_back(cache.order).list
  ELSE cache.order
Grew == len(c.order.values) > len(pre.order.values)

\* C20: the buffer of a cache of size N never has more than N + 2 slots:
\* push_front appends a slot only when the free cycle is empty and otherwise
\* takes the slot released last, and the free and occupied slots together
\* are never more than N.
C20_BufferBounded ==
  /\ \A list \in Lists :
       /\ len(list.values) <= size + 2
       /\ Cardinality(FreeCycle(list) \cup OccupiedCycle(list)) <= size
  /\ Completed("set") =>
       /\ Grew =>
            /\ len(c.order.values) = len(pre.order.values) + 1
            /\ FreeCycle(PushedOnto(pre)) = {}
            /\ ~Full(pre)
       /\ (last.key \notin DOMAIN pre.store
             /\ FreeCycle(PushedOnto(pre)) # {}) =>
            /\ ~Grew
            /\ c.store[last.key] = PushedOnto(pre).values[FREE].next
  /\ (panicked = NoPanic /\ last.op # "set") =>
       len(c.order.values) <= len(pre.order.values)

\* a cache_set below capacity takes the slot that a cache_remove released
C20_Witness ==
  /\ Completed("set")
  /\ ~Full(pre)
  /\ last.key \notin DOMAIN pre.store
  /\ FreeCycle(pre.order) # {}
  /\ c.store[last.key] \in FreeCycle(pre.order)
  /\ len(c.order.values) = size + 2

(* ------------------ properties of SpecSets --------------------------- *)
\* C6: cache_get(k) returns a value exactly when k is in the index (and in
\* key_order()), and that value is the one of the most recent
\* cache_set(k, v).
C6_GetReturnsLastSet ==
  last.op = "get" =>
    /\ panicked = NoPanic
    /\ (last.ret # None) = Present(c, last.key)
    /\ (last.ret # None) = (last.key \in Elems(key_order(c)))
    /\ last.ret # None => last.ret = lastSet[last.key]

\* a hit on a key set more than once, in a cache that has lost another key
C6_Witness ==
  /\ last.op = "get" /\ last.ret = Some(100) /\ lastSet[last.key] = Some(100)
  /\ \E k \in Keys : lastSet[k] # None /\ ~Present(c, k)
  /\ \E k \in Keys : Present(c, k) /\ lastSet[k] = Some(200)

\* a miss on a key that was set and has since left the cache
C6_MissWitness ==
  /\ last.op = "get" /\ last.ret = None /\ lastSet[last.key] # None

(* ------- properties of SpecCounters and SpecTimed ---------------------- *)
\* natural numbers beyond TLC's integers, as <<hi, lo>> with lo < Half
nat_inc(x) == IF x[2] + 1 < Half THEN <<x[1], x[2] + 1>> ELSE <<x[1] + 1, 0>>
nat_add(x, y) ==
  <<x[1] + y[1] + (x[2] + y[2]) \div Half, (x[2] + y[2]) % Half>>

\* C11: in all three caches every cache_get adds exactly 1 to hits (a value
\* is returned) or to misses (None is returned) and leaves the other
\* counter alone, the other calls leave both alone, and so hits + misses is
\* the number of cache_get calls made.
C11_EveryGetCountsOnce ==
  /\ Completed("get") =>
       IF last.ret # None
       THEN cur.hits = nat_inc(pre.hits) /\ cur.misses = pre.misses
       ELSE cur.misses = nat_inc(pre.misses) /\ cur.hits = pre.hits
  /\ (\E op \in {"set", "remove", "clear", "reset"} : Completed(op)) =>
       cur.hits = pre.hits /\ cur.misses = pre.misses
  /\ panicked = NoPanic =>
       nat_add(cur.hits, cur.misses)
         = nat_add(nat_add(counted.hits, counted.misses), u32(gets))

\* C11 restricted to caches whose counters are below u32::MAX when the call
\* is made
C11_CountsBelowMax ==
  (pre.hits # U32Max /\ pre.misses # U32Max
     /\ counted.hits # U32Max /\ counted.misses # U32Max)
    => C11_EveryGetCountsOnce

\* whole seconds in a span of `d` clock ticks
WholeSeconds(d) ==
  CHOOSE n \in 0..d : n * TicksPerSec <= d /\ d < (n + 1) * TicksPerSec
AgeBefore(k) == WholeSeconds(now - pre.store[k][1])

\* C12: a TimedCache cache_get on an entry younger than the lifespan counts
\* a hit, returns the value and keeps the entry; on an older entry it counts
\* a miss, returns None and removes the entry; on an absent key it counts a
\* miss and returns None; cache_set restarts the key's age at zero.
C12_TimedGet ==
  /\ Completed("get") =>
       IF last.key \notin DOMAIN pre.store
       THEN /\ last.ret = None
            /\ t.misses = u32_inc(pre.misses) /\ t.hits = pre.hits
            /\ t.store = pre.store
       ELSE IF AgeBefore(last.key) < pre.seconds
       THEN /\ last.ret = Some(pre.store[last.key][2])
            /\ t.hits = u32_inc(pre.hits) /\ t.misses = pre.misses
            /\ t.store = pre.store
       ELSE /\ last.ret = None
            /\ t.misses = u32_inc(pre.misses) /\ t.hits = pre.hits
            /\ DOMAIN t.store = DOMAIN pre.store \ {last.key}
            /\ Cardinality(DOMAIN t.store) = Cardinality(DOMAIN pre.store) - 1
            /\ Status(t, last.key, now) = "NotFound"
            /\ TimedCache_cache_get(t, last.key, now).ret = None
            /\ TimedCache_cache_get(t, last.key, now).c.store = t.store
  /\ Completed("set") =>
       /\ last.key \in DOMAIN t.store
       /\ t.store[last.key] = <<now, last.val>>
       /\ WholeSeconds(now - t.store[last.key][1]) = 0

\* a cache_get finds an entry that has lived its lifespan of a second
C12_Witness ==
  /\ Completed("get")
  /\ last.key \in DOMAIN pre.store
  /\ pre.seconds = 1
  /\ AgeBefore(last.key) = 1
  /\ last.ret = None

\* C13: the passing of time and a cache_get of another key never change
\* cache_size(); an entry goes only by a cache_get or cache_remove of its
\* own key, a cache_clear or a cache_reset.
C13_NoProactiveEviction ==
  /\ last.op = "tick" => t = pre
  /\ Completed("get") =>
       \A k \in DOMAIN pre.store \ {last.key} :
         k \in DOMAIN t.store /\ t.store[k] = pre.store[k]
  /\ \A k \in DOMAIN pre.store \ DOMAIN t.store :
       \/ last.op \in {"get", "remove"} /\ last.key = k
       \/ last.op \in {"clear", "reset"}
  /\ (last.op = "tick" \/ (last.op = "get" /\ last.key \notin DOMAIN pre.store))
       => Cardinality(DOMAIN t.store) = Cardinality(DOMAIN pre.store)

\* a cache_get of one key leaves the expired entry of another key in place
C13_Witness ==
  /\ Completed("get")
  /\ \E k \in DOMAIN t.store :
       k # last.key /\ Status(t, k, now) = "Expired"

\* x <= y on counters kept as <<hi, lo>>
u32_le(x, y) == x[1] < y[1] \/ (x[1] = y[1] /\ x[2] <= y[2])

\* C21: cache_hits() and cache_misses() never return less than they
\* returned before: no completed call lowers either u32 counter, neither
\* falls below what it was when the calls began, and cache_clear and
\* cache_reset leave both as they are.
C21_CountersNeverDecrease ==
  panicked = NoPanic =>
    /\ u32_le(pre.hits, cur.hits) /\ u32_le(pre.misses, cur.misses)
    /\ u32_le(counted.hits, cur.hits) /\ u32_le(counted.misses, cur.misses)
    /\ last.op \in {"clear", "reset"} =>
         cur.hits = pre.hits /\ cur.misses = pre.misses

\* C21 restricted to counters that are below u32::MAX when a call is made
C21_NeverDecreaseBelowMax ==
  (pre.hits # U32Max /\ pre.misses # U32Max
     /\ counted.hits # U32Max /\ counted.misses # U32Max)
    => C21_CountersNeverDecrease

\* C21's second half alone: cache_clear and cache_reset never touch the
\* counters, whatever their values
C21_ClearKeepsCounters ==
  last.op \in {"clear", "reset"} =>
    cur.hits = pre.hits /\ cur.misses = pre.misses

====
